---- MODULE Spec2Model ----
(***************************************************************************)
(* Model of JPFMinimizeTurns (src/finders/JPFMinimizeTurns.js): the jump   *)
(* point finder restricted to orthogonal movement that biases the search   *)
(* toward paths with fewer corner turns.                                   *)
(*                                                                         *)
(* Costs are kept as integers by counting in half units: every g, h and    *)
(* the turn penalty are twice their JavaScript value (turnPenalty 0.5 is   *)
(* the number 1 here).                                                     *)
(*                                                                         *)
(* The option trackJumpRecursion only marks scanned nodes for display      *)
(* (node.tested is never read by the finder) and is not part of the state. *)
(***************************************************************************)
EXTENDS Integers, Sequences, FiniteSets

\* ---- bounds of the model ------------------------------------------------
GridW == 4
GridH == 4
MaxBlocked == 1
MaxLook == 3
CountCap == 2

\* ---- program constants --------------------------------------------------
\* default of opt.turnPenalty (0.5), in half units
DefaultTurnPenalty2 == 1
\* default of opt.lookAheadDistance
DefaultLookAhead == 3

VARIABLES
    walkable,           \* grid: the set of walkable cells
    startNode,          \* this.startNode, as <<x, y>>
    endNode,            \* this.endNode, as <<x, y>>
    minimizeTurns,      \* this.minimizeTurns
    lookAheadDistance,  \* this.lookAheadDistance
    turnPenalty,        \* this.turnPenalty, in half units
    g,                  \* node.g, in half units (0 while the node is unopened)
    h,                  \* node.h, in half units (0 while unset: h is falsy)
    opened,             \* the set of nodes with node.opened
    closed,             \* the set of nodes with node.closed
    parent,             \* node.parent, Null when there is none
    openList,           \* the open list (a heap ordered by f = g + h)
    pc,                 \* "idle", "search" or "done"
    path,               \* the sequence findPath returned
    scans,              \* the _jump calls of the last _identifySuccessors
    scanSteps,          \* the longest chain of _jump calls of the last expansion
    pushCount,          \* how often each node was pushed onto the open list
    closeCount,         \* how often each node was closed
    lowered,            \* the opened nodes whose g a later relaxation lowered
    iterations,         \* the iterations of findPath's loop so far
    query,              \* 1 for the first query, 2 for the repeated one
    prevPath            \* the path the first query returned

vars == <<walkable, startNode, endNode, minimizeTurns, lookAheadDistance,
          turnPenalty, g, h, opened, closed, parent, openList, pc, path,
          scans, scanSteps, pushCount, closeCount, lowered, iterations,
          query, prevPath>>

inputVars == <<walkable, startNode, endNode>>
optVars == <<minimizeTurns, lookAheadDistance, turnPenalty>>
nodeVars == <<g, h, opened, closed, parent, openList>>
histVars == <<scans, scanSteps, pushCount, closeCount, lowered, iterations>>

Null == <<>>

Cells == (0 .. GridW - 1) \X (0 .. GridH - 1)

\* the iteration counter stops one above the number of cells
MaxIterations == GridW * GridH + 1

Abs(v) == IF v < 0 THEN -v ELSE v

Max(a, b) == IF a < b THEN b ELSE a

Min(a, b) == IF a < b THEN a ELSE b

\* Math.sign
Sgn(v) == IF v > 0 THEN 1 ELSE IF v < 0 THEN -1 ELSE 0

\* grid.isWalkableAt: false, never an error, outside the grid
IsWalkableAt(x, y) == <<x, y>> \in walkable

\* grid.getNodeAt(x, y) === this.endNode
IsEndNode(x, y) == <<x, y>> = endNode

\* node.weight: the terrain weight of a cell (the default, 1, everywhere)
Weight(n) == 1

\* the heuristic option: Manhattan distance on (|dx|, |dy|), in half units
Heuristic(adx, ady) == 2 * (adx + ady)

\* Util.interpolate: the cells of Bresenham's line from (x0, y0) to (x1, y1),
\* both ends included
RECURSIVE InterpolateFrom(_, _, _, _, _, _, _, _, _)
InterpolateFrom(x0, y0, x1, y1, dx, dy, sx, sy, err) ==
    IF x0 = x1 /\ y0 = y1
    THEN << <<x0, y0>> >>
    ELSE LET e2 == 2 * err
             stepX == e2 > -dy
             err1 == IF stepX THEN err - dy ELSE err
             nx == IF stepX THEN x0 + sx ELSE x0
             stepY == e2 < dx
             err2 == IF stepY THEN err1 + dx ELSE err1
             ny == IF stepY THEN y0 + sy ELSE y0
         IN  << <<x0, y0>> >> \o InterpolateFrom(nx, ny, x1, y1, dx, dy, sx, sy, err2)

Interpolate(x0, y0, x1, y1) ==
    LET dx == Abs(x1 - x0)
        dy == Abs(y1 - y0)
        sx == IF x0 < x1 THEN 1 ELSE -1
        sy == IF y0 < y1 THEN 1 ELSE -1
    IN  InterpolateFrom(x0, y0, x1, y1, dx, dy, sx, sy, dx - dy)

\* ---- _findSmoothJump ----------------------------------------------------

\* the cells strictly between the ends of the line are all walkable
LineClear(line) ==
    \A i \in 2 .. Len(line) - 1 : IsWalkableAt(line[i][1], line[i][2])

\* one look-ahead attempt at distance dist: the point, or Null
SmoothAt(x, y, dx, dy, dist) ==
    LET nx == x + dx * dist
        ny == y + dy * dist
    IN  IF IsWalkableAt(nx, ny) /\ LineClear(Interpolate(x, y, nx, ny))
        THEN <<nx, ny>>
        ELSE Null

\* the loop over the shorter look-ahead distances, dist down to 1
RECURSIVE TryShorter(_, _, _, _, _)
TryShorter(x, y, dx, dy, dist) ==
    IF dist < 1
    THEN Null
    ELSE IF SmoothAt(x, y, dx, dy, dist) # Null
         THEN SmoothAt(x, y, dx, dy, dist)
         ELSE TryShorter(x, y, dx, dy, dist - 1)

FindSmoothJump(x, y, dx, dy) ==
    IF dx # 0 /\ dy # 0
    THEN Null
    ELSE IF SmoothAt(x, y, dx, dy, lookAheadDistance) # Null
         THEN SmoothAt(x, y, dx, dy, lookAheadDistance)
         ELSE TryShorter(x, y, dx, dy, lookAheadDistance - 1)

\* ---- _jump --------------------------------------------------------------

\* the forced-neighbour test of _jump at (x, y), travelling (dx, dy)
ForcedNeighbor(x, y, dx, dy) ==
    IF dx # 0
    THEN \/ IsWalkableAt(x + dx, y + 1) /\ ~IsWalkableAt(x, y + 1)
         \/ IsWalkableAt(x + dx, y - 1) /\ ~IsWalkableAt(x, y - 1)
    ELSE IF dy # 0
         THEN \/ IsWalkableAt(x + 1, y + dy) /\ ~IsWalkableAt(x + 1, y)
              \/ IsWalkableAt(x - 1, y + dy) /\ ~IsWalkableAt(x - 1, y)
         ELSE FALSE

\* _jump(x, y, px, py) as <<jump point or Null, number of _jump calls made>>
RECURSIVE JumpScan(_, _, _, _)
JumpScan(x, y, px, py) ==
    LET dx == x - px
        dy == y - py
    IN  IF ~IsWalkableAt(x, y) THEN <<Null, 1>>
        ELSE IF IsEndNode(x, y) THEN << <<x, y>>, 1 >>
        ELSE IF dx # 0 /\ dy # 0 THEN <<Null, 1>>
        ELSE IF ForcedNeighbor(x, y, dx, dy) THEN << <<x, y>>, 1 >>
        ELSE LET smoothJump == IF minimizeTurns
                               THEN FindSmoothJump(x, y, dx, dy)
                               ELSE Null
             IN  IF smoothJump # Null
                 THEN <<smoothJump, 1>>
                 ELSE LET rest == JumpScan(x + dx, y + dy, x, y)
                      IN  <<rest[1], rest[2] + 1>>

Jump(x, y, px, py) == JumpScan(x, y, px, py)[1]

JumpSteps(x, y, px, py) == JumpScan(x, y, px, py)[2]

\* ---- _findSmoothNeighbors and _findNeighbors ------------------------------

\* the cells of a candidate list that are walkable, in the list's order
RECURSIVE WalkableOf(_)
WalkableOf(cs) ==
    IF cs = <<>>
    THEN <<>>
    ELSE (IF IsWalkableAt(cs[1][1], cs[1][2]) THEN <<cs[1]>> ELSE <<>>)
         \o WalkableOf(Tail(cs))

\* the perpendicular cells next to the node that _findSmoothNeighbors probes
ProbeCells(node, dx, dy) ==
    LET x == node[1]
        y == node[2]
    IN  IF dx # 0 THEN WalkableOf(<< <<x, y + 1>>, <<x, y - 1>> >>)
        ELSE IF dy # 0 THEN WalkableOf(<< <<x + 1, y>>, <<x - 1, y>> >>)
        ELSE <<>>

\* the probed cells from which _jump finds a jump point
RECURSIVE ProbesWithJump(_, _)
ProbesWithJump(node, cs) ==
    IF cs = <<>>
    THEN <<>>
    ELSE (IF Jump(cs[1][1], cs[1][2], node[1], node[2]) # Null
          THEN <<cs[1]>> ELSE <<>>)
         \o ProbesWithJump(node, Tail(cs))

FindSmoothNeighbors(node, dx, dy) ==
    ProbesWithJump(node, ProbeCells(node, dx, dy))

\* grid.getNeighbors(node, DiagonalMovement.Never): up, right, down, left
GetNeighbors(node) ==
    LET x == node[1]
        y == node[2]
    IN  WalkableOf(<< <<x, y - 1>>, <<x + 1, y>>, <<x, y + 1>>, <<x - 1, y>> >>)

\* the travel direction into the node, from its parent px, py
TravelDir(node, par) ==
    << (node[1] - par[1]) \div Max(Abs(node[1] - par[1]), 1),
       (node[2] - par[2]) \div Max(Abs(node[2] - par[2]), 1) >>

\* the pruned candidates of _findNeighbors for a node with a parent
PrunedNeighbors(node, dx, dy) ==
    LET x == node[1]
        y == node[2]
    IN  IF dx # 0
        THEN WalkableOf(<< <<x + dx, y>>, <<x + dx, y + 1>>, <<x + dx, y - 1>> >>)
        ELSE IF dy # 0
             THEN WalkableOf(<< <<x, y + dy>>, <<x + 1, y + dy>>, <<x - 1, y + dy>> >>)
             ELSE <<>>

FindNeighbors(node) ==
    IF parent[node] = Null
    THEN GetNeighbors(node)
    ELSE LET d == TravelDir(node, parent[node])
         IN  PrunedNeighbors(node, d[1], d[2])
             \o (IF minimizeTurns
                 THEN FindSmoothNeighbors(node, d[1], d[2])
                 ELSE <<>>)

\* ---- _identifySuccessors ----------------------------------------------------

\* if (jumpNode.closed) continue
SkipClosed(cl, jumpNode) == jumpNode \in cl

\* the cost of the edge node -> jumpNode: Manhattan distance times the weight
EdgeCost(node, jumpNode) ==
    2 * (Abs(jumpNode[1] - node[1]) + Abs(jumpNode[2] - node[2])) * Weight(jumpNode)

\* isTurn: the direction into the node differs from the direction out of it
IsTurn(node, jumpNode) ==
    LET prevDx == Sgn(node[1] - parent[node][1])
        prevDy == Sgn(node[2] - parent[node][2])
        currDx == Sgn(jumpNode[1] - node[1])
        currDy == Sgn(jumpNode[2] - node[2])
    IN  (prevDx # currDx) \/ (prevDy # currDy)

\* ng: the cost of reaching jumpNode through node
NewG(node, jumpNode) ==
    g[node] + EdgeCost(node, jumpNode)
    + (IF minimizeTurns /\ parent[node] # Null /\ IsTurn(node, jumpNode)
       THEN turnPenalty
       ELSE 0)

\* a relaxation that fires for every jump point found, cheaper or not
ShouldRelaxAlways(isOpened, ng, curG) == TRUE

\* if (!jumpNode.opened || ng < jumpNode.g)
ShouldRelax(isOpened, ng, curG) == ~isOpened \/ ng < curG

\* a push that leaves the opened flag unset
MarkOpenedForgotten(op, jumpNode) == op

\* jumpNode.opened = true
MarkOpened(op, jumpNode) == op \cup {jumpNode}

\* the node fields and the open list as one loop of _identifySuccessors sees them
NodeState ==
    [g |-> g, h |-> h, opened |-> opened, closed |-> closed, parent |-> parent,
     openList |-> openList, pushCount |-> pushCount, lowered |-> lowered]

\* the body of the loop for one neighbour whose jump found jumpNode
RelaxOne(st, node, jumpNode) ==
    IF SkipClosed(st.closed, jumpNode)
    THEN st
    ELSE LET ng == NewG(node, jumpNode)
         IN  IF ShouldRelax(jumpNode \in st.opened, ng, st.g[jumpNode])
             THEN LET newH == IF st.h[jumpNode] # 0
                              THEN st.h[jumpNode]
                              ELSE Heuristic(Abs(jumpNode[1] - endNode[1]),
                                             Abs(jumpNode[2] - endNode[2]))
                      base == [st EXCEPT !.g[jumpNode] = ng,
                                         !.h[jumpNode] = newH,
                                         !.parent[jumpNode] = node]
                  IN  IF jumpNode \notin st.opened
                      THEN [base EXCEPT
                              !.openList = Append(st.openList, jumpNode),
                              !.opened = MarkOpened(st.opened, jumpNode),
                              !.pushCount[jumpNode] =
                                  Min(st.pushCount[jumpNode] + 1, CountCap)]
                      ELSE [base EXCEPT !.lowered = st.lowered \cup {jumpNode}]
             ELSE st

\* the loop of _identifySuccessors over the neighbours, in order
RECURSIVE RelaxAll(_, _, _)
RelaxAll(st, node, neighbors) ==
    IF neighbors = <<>>
    THEN st
    ELSE LET jumpPoint == Jump(neighbors[1][1], neighbors[1][2], node[1], node[2])
         IN  RelaxAll(IF jumpPoint # Null THEN RelaxOne(st, node, jumpPoint) ELSE st,
                      node, Tail(neighbors))

IdentifySuccessors(st, node) == RelaxAll(st, node, FindNeighbors(node))

\* the _jump calls an expansion of node makes from _identifySuccessors and from
\* _findSmoothNeighbors, each as <<x, y, px, py, result>>
JumpCalls(node) ==
    LET probes == IF parent[node] # Null /\ minimizeTurns
                  THEN LET d == TravelDir(node, parent[node])
                       IN  ProbeCells(node, d[1], d[2])
                  ELSE <<>>
        cands == FindNeighbors(node) \o probes
    IN  { <<cands[i][1], cands[i][2], node[1], node[2],
            Jump(cands[i][1], cands[i][2], node[1], node[2])>> : i \in DOMAIN cands }

\* the longest chain of _jump calls among the calls of an expansion
LongestScan(node) ==
    LET calls == JumpCalls(node)
    IN  IF calls = {}
        THEN 0
        ELSE CHOOSE m \in { JumpSteps(c[1], c[2], c[3], c[4]) : c \in calls } :
                 \A c \in calls : JumpSteps(c[1], c[2], c[3], c[4]) <= m

\* ---- the open list and the main loop (findPath) ------------------------------

\* node.f
F(n) == g[n] + h[n]

\* the positions of the open list that hold a node of minimal f
MinPositions ==
    { i \in DOMAIN openList : \A j \in DOMAIN openList : F(openList[i]) <= F(openList[j]) }

\* the open list after openList.pop() took the node at position i
HeapPop(list, i) == SubSeq(list, 1, i - 1) \o SubSeq(list, i + 1, Len(list))

\* Util.backtrace: the parents from node back to the start, reversed
RECURSIVE Backtrace(_)
Backtrace(node) ==
    IF parent[node] = Null
    THEN <<node>>
    ELSE Append(Backtrace(parent[node]), node)

\* fresh per-query node fields
FreshNodes ==
    /\ g = [n \in Cells |-> 0]
    /\ h = [n \in Cells |-> 0]
    /\ opened = {}
    /\ closed = {}
    /\ parent = [n \in Cells |-> Null]
    /\ openList = <<>>
    /\ scans = {}
    /\ scanSteps = 0
    /\ pushCount = [n \in Cells |-> 0]
    /\ closeCount = [n \in Cells |-> 0]
    /\ lowered = {}
    /\ iterations = 0

\* the grids: every cell walkable but at most MaxBlocked of them
Grids == { Cells \ b : b \in { s \in SUBSET Cells : Cardinality(s) <= MaxBlocked } }

TurnPenalties == {0, DefaultTurnPenalty2}

Init ==
    /\ walkable \in Grids
    /\ startNode \in Cells
    /\ endNode \in Cells
    /\ minimizeTurns \in BOOLEAN
    /\ lookAheadDistance \in (IF minimizeTurns THEN 1 .. MaxLook ELSE {DefaultLookAhead})
    /\ turnPenalty \in (IF minimizeTurns THEN TurnPenalties ELSE {DefaultTurnPenalty2})
    /\ FreshNodes
    /\ pc = "idle"
    /\ path = <<>>
    /\ query = 1
    /\ prevPath = <<>>

\* findPath up to its loop: the start node gets g = 0 and is pushed
FindPath ==
    /\ pc = "idle"
    /\ g' = [g EXCEPT ![startNode] = 0]
    /\ h' = [h EXCEPT ![startNode] =
                Heuristic(Abs(startNode[1] - endNode[1]), Abs(startNode[2] - endNode[2]))]
    /\ openList' = <<startNode>>
    /\ opened' = {startNode}
    /\ pushCount' = [pushCount EXCEPT ![startNode] = 1]
    /\ pc' = "search"
    /\ UNCHANGED <<inputVars, optVars, closed, parent, path, scans, scanSteps,
                   closeCount, lowered, iterations, query, prevPath>>

\* one iteration of the loop that pops the end node: the path is returned
FoundGoal ==
    /\ pc = "search"
    /\ \E i \in MinPositions :
        LET node == openList[i]
        IN  /\ node = endNode
            /\ openList' = HeapPop(openList, i)
            /\ closed' = closed \cup {node}
            /\ closeCount' = [closeCount EXCEPT ![node] = Min(@ + 1, CountCap)]
            /\ path' = Backtrace(node)
    /\ iterations' = Min(iterations + 1, MaxIterations)
    /\ pc' = "done"
    /\ UNCHANGED <<inputVars, optVars, g, h, opened, parent, scans, scanSteps,
                   pushCount, lowered, query, prevPath>>

\* one iteration of the loop that pops another node: its successors are relaxed
Expand ==
    /\ pc = "search"
    /\ \E i \in MinPositions :
        LET node == openList[i]
            st == IdentifySuccessors(
                      [NodeState EXCEPT !.openList = HeapPop(openList, i),
                                        !.closed = closed \cup {node}], node)
        IN  /\ node # endNode
            /\ closed' = st.closed
            /\ closeCount' = [closeCount EXCEPT ![node] = Min(@ + 1, CountCap)]
            /\ g' = st.g
            /\ h' = st.h
            /\ opened' = st.opened
            /\ parent' = st.parent
            /\ openList' = st.openList
            /\ pushCount' = st.pushCount
            /\ lowered' = st.lowered
            /\ scans' = JumpCalls(node)
            /\ scanSteps' = LongestScan(node)
    /\ iterations' = Min(iterations + 1, MaxIterations)
    /\ UNCHANGED <<inputVars, optVars, pc, path, query, prevPath>>

\* the loop ends with the open list empty: the empty path is returned
Exhausted ==
    /\ pc = "search"
    /\ openList = <<>>
    /\ path' = <<>>
    /\ pc' = "done"
    /\ UNCHANGED <<inputVars, optVars, nodeVars, histVars, query, prevPath>>

Next == FindPath \/ FoundGoal \/ Expand \/ Exhausted

Spec == Init /\ [][Next]_vars

\* ---- a second query on the same grid ------------------------------------------

\* the first query runs with minimizeTurns off
InitNoOp ==
    /\ Init
    /\ ~minimizeTurns

\* the same start and goal are queried again, on fresh node fields, by a finder
\* with minimizeTurns on and lookAheadDistance 1 and otherwise equal options
Requery ==
    /\ pc = "done"
    /\ query = 1
    /\ prevPath' = path
    /\ query' = 2
    /\ minimizeTurns' = TRUE
    /\ lookAheadDistance' = 1
    /\ g' = [n \in Cells |-> 0]
    /\ h' = [n \in Cells |-> 0]
    /\ opened' = {}
    /\ closed' = {}
    /\ parent' = [n \in Cells |-> Null]
    /\ openList' = <<>>
    /\ scans' = {}
    /\ scanSteps' = 0
    /\ pushCount' = [n \in Cells |-> 0]
    /\ closeCount' = [n \in Cells |-> 0]
    /\ lowered' = {}
    /\ iterations' = 0
    /\ path' = <<>>
    /\ pc' = "idle"
    /\ UNCHANGED <<inputVars, turnPenalty>>

NextNoOp == FindPath \/ FoundGoal \/ Expand \/ Exhausted \/ Requery

SpecNoOp == InitNoOp /\ [][NextNoOp]_vars

\* ---- notions the properties are stated with ------------------------------------

Manhattan(a, b) == Abs(a[1] - b[1]) + Abs(a[2] - b[2])

\* the cells reachable from the cells of set by single orthogonal moves through
\* walkable cells
RECURSIVE Flood(_)
Flood(set) ==
    LET more == set \cup { c \in walkable : \E d \in set : Manhattan(c, d) = 1 }
    IN  IF more = set THEN set ELSE Flood(more)

GoalReachable == endNode \in Flood({startNode})

\* the cells of the straight line between two points of a path
LineCells(a, b) ==
    LET line == Interpolate(a[1], a[2], b[1], b[2])
    IN  { line[k] : k \in DOMAIN line }

\* the number of single-cell steps of a path after its cell-by-cell expansion
RECURSIVE ExpandedSteps(_)
ExpandedSteps(p) ==
    IF Len(p) < 2
    THEN 0
    ELSE Len(Interpolate(p[1][1], p[1][2], p[2][1], p[2][2])) - 1
         + ExpandedSteps(Tail(p))

\* the direction of the i-th segment of a path
SegDir(p, i) == <<Sgn(p[i + 1][1] - p[i][1]), Sgn(p[i + 1][2] - p[i][2])>>

\* the number of changes of direction along a path
Turns(p) == Cardinality({ i \in 1 .. Len(p) - 2 : SegDir(p, i) # SegDir(p, i + 1) })

Done == pc = "done"

\* ---- the claims ---------------------------------------------------------------

\* C1: with walkable start and goal, a goal reachable by orthogonal moves gives a
\* non-empty path from the start to the goal, and the empty path is returned only
\* when the goal is not reachable.
C1_PathIffReachable ==
    (Done /\ startNode \in walkable /\ endNode \in walkable) =>
        /\ GoalReachable =>
              (path # <<>> /\ path[1] = startNode /\ path[Len(path)] = endNode)
        /\ path = <<>> => ~GoalReachable

\* C2: every cell on the straight line between consecutive points of a returned
\* path, both ends included, is walkable.
C2_PathWalkable ==
    (Done /\ path # <<>>) =>
        \A i \in 1 .. Len(path) - 1 : LineCells(path[i], path[i + 1]) \subseteq walkable

\* C2 restricted to a walkable start cell: what remains true of the code.
C2_WalkableStartPath ==
    (Done /\ path # <<>> /\ startNode \in walkable) =>
        \A i \in 1 .. Len(path) - 1 : LineCells(path[i], path[i + 1]) \subseteq walkable

\* C3: consecutive points of a returned path differ in exactly one coordinate, and
\* every _jump call with a diagonal direction returns none.
C3_AxisAligned ==
    /\ Done =>
          \A i \in 1 .. Len(path) - 1 :
              (path[i][1] = path[i + 1][1]) # (path[i][2] = path[i + 1][2])
    /\ \A c \in scans : (c[1] # c[3] /\ c[2] # c[4]) => c[5] = Null

\* C4: on an obstacle-free grid with minimizeTurns off the returned path expands
\* to exactly the Manhattan distance of single steps.
C4_OpenGridManhattan ==
    (Done /\ walkable = Cells /\ ~minimizeTurns) =>
        /\ path # <<>>
        /\ ExpandedSteps(path) = Manhattan(startNode, endNode)

\* C5: on an obstacle-free grid with minimizeTurns on and a look-ahead distance
\* of at least max(|dx|, |dy|), a start and goal displaced on both axes get a
\* path with at most one turn; on the 5x5 grid from (0,0) to (4,4) with
\* look-ahead 4 and penalty 0.5 the goal's g is at most 8.5.
C5_AtMostOneTurn ==
    (/\ Done
     /\ walkable = Cells
     /\ minimizeTurns
     /\ startNode[1] # endNode[1]
     /\ startNode[2] # endNode[2]
     /\ lookAheadDistance >= Max(Abs(startNode[1] - endNode[1]),
                                 Abs(startNode[2] - endNode[2]))) =>
        /\ Turns(path) <= 1
        /\ (/\ GridW = 5 /\ GridH = 5
            /\ startNode = <<0, 0>> /\ endNode = <<4, 4>>
            /\ lookAheadDistance = 4 /\ turnPenalty = 1) =>
               (path # <<>> /\ g[endNode] <= 17)

\* C6: with lookAheadDistance 1, a query with minimizeTurns on returns the same
\* sequence of points as the query with minimizeTurns off.
C6_LookAheadOneNoOp == (Done /\ query = 2) => path = prevPath

\* C7: with the goal cell unwalkable the search returns the empty sequence, from
\* every start cell, the goal cell included.
C7_UnwalkableGoalEmpty == (Done /\ endNode \notin walkable) => path = <<>>

\* C7 restricted to a start cell other than the goal: what remains true of the
\* code, because _jump tests walkability before it tests for the goal.
C7_DistinctStartEmpty ==
    (Done /\ endNode \notin walkable /\ startNode # endNode) => path = <<>>

\* C8: every search terminates: each iteration of the loop closes a node that was
\* not closed before, so the loop runs at most once per cell, and while the open
\* list is not empty an iteration can pop a node; the search ends either with the
\* goal popped and a path returned or with the open list empty and the empty
\* sequence returned; every _jump scan makes at most as many calls as the longer
\* side of the grid has cells.
C8_Terminates ==
    /\ iterations = Cardinality(closed)
    /\ iterations <= Cardinality(Cells)
    /\ (pc = "search" /\ openList # <<>>) => MinPositions # {}
    /\ Done => \/ (endNode \in closed /\ path # <<>>)
               \/ (endNode \notin closed /\ openList = <<>> /\ path = <<>>)
    /\ scanSteps <= Max(GridW, GridH)

\* a search that ran three iterations or more, scanned past the first cell and
\* ended with the open list empty
C8_Witness ==
    /\ Done
    /\ path = <<>>
    /\ iterations >= 3
    /\ scanSteps >= 2

\* C9: each node is pushed at most once and closed at most once, a closed node's
\* g and parent never change again, the g of an opened node never increases, and
\* every node on the open list lies inside the grid.
C9_NodeDiscipline ==
    /\ [](\A n \in Cells : pushCount[n] <= 1 /\ closeCount[n] <= 1)
    /\ [](\A i \in DOMAIN openList : openList[i] \in Cells)
    /\ [][\A n \in Cells :
            /\ n \in closed => (g'[n] = g[n] /\ parent'[n] = parent[n])
            /\ n \in opened => g'[n] <= g[n]]_vars

\* a search in which the g of an opened node was lowered and an expansion found
\* a closed node again
C9_Witness ==
    /\ pc = "search"
    /\ lowered # {}
    /\ \E c \in scans :
          /\ c[5] # Null
          /\ c[5] \in closed
          /\ c[5] # <<c[3], c[4]>>

\* C10: a _jump call in an axis-aligned unit direction, with the goal on its ray
\* and every cell up to the goal walkable, returns the goal or a point before it.
C10_NeverPassesGoal ==
    \A c \in scans :
        LET dx == c[1] - c[3]
            dy == c[2] - c[4]
        IN  (/\ Abs(dx) + Abs(dy) = 1
             /\ \E k \in 0 .. Max(GridW, GridH) :
                   /\ endNode = <<c[1] + k * dx, c[2] + k * dy>>
                   /\ \A t \in 0 .. k : IsWalkableAt(c[1] + t * dx, c[2] + t * dy)) =>
                /\ c[5] # Null
                /\ (c[5][1] - c[1]) * dx + (c[5][2] - c[2]) * dy
                       <= Manhattan(<<c[1], c[2]>>, endNode)

\* C10 restricted to scans without look-ahead beyond the next cell (minimizeTurns
\* off, or lookAheadDistance 1): what remains true of the code.
C10_ShortScanStopsAtGoal ==
    (~minimizeTurns \/ lookAheadDistance = 1) => C10_NeverPassesGoal

====
